---- MODULE Spec2Model ----
(***************************************************************************)
(* A model of lusbir.py: integer ranges characterized by a lower bound, an *)
(* upper bound, a step and a base (a "lusb tuple"), stored next to the     *)
(* Python range that represents the same list.                             *)
(*                                                                         *)
(* Python values are modelled as follows.                                  *)
(*   int                 an integer                                        *)
(*   Optional[int]       {} for None, {n} for the integer n                *)
(*   range               [start, stop, step]                               *)
(*   Bound               [number, inclusive]                               *)
(*   LusbTuple           [lbound, ubound, step, base]                      *)
(*   Lusbir              [_range, _lusb_tuple]     (the two __slots__)     *)
(*   positional argument [int |-> n] or [str |-> s]                        *)
(*   a call's outcome    Return(v) or Raise(exception type name)           *)
(***************************************************************************)
EXTENDS Integers, Sequences, FiniteSets, TLC

VARIABLES lr, other, out

vars == <<lr, other, out>>

-----------------------------------------------------------------------------
(* Bounds of the model *)

\* numeric lower and upper bounds, range starts and stops: -MaxNum .. MaxNum
MaxNum == 3
\* steps: -MaxStep .. MaxStep (0, the invalid step, included)
MaxStep == 3
\* bases: -MaxBase .. MaxBase
MaxBase == 3
\* the same three for the specifications that pair an instance with a slice
\* or with a second instance
SmallNum == 1
SmallStep == 2
SmallBase == 1
\* slice starts and stops: None or -MaxSliceIdx .. MaxSliceIdx
MaxSliceIdx == 2
\* slice steps: None or -MaxSliceStep .. MaxSliceStep (0 included)
MaxSliceStep == 2

\* multiples of the step added to a base: -MaxShift .. MaxShift
MaxShift == 2

-----------------------------------------------------------------------------
(* Python building blocks *)

Return(v) == [ok |-> TRUE, val |-> v]

Raise(e) == [ok |-> FALSE, exc |-> e]

None == {}

Some(n) == {n}

The(o) == CHOOSE n \in o : TRUE

Abs(n) == IF n < 0 THEN -n ELSE n

\* Python's a // b for b # 0: the quotient rounded toward negative infinity.
FloorDiv(a, b) ==
    LET q == Abs(a) \div Abs(b)
        exact == q * Abs(b) = Abs(a)
    IN  IF (a < 0) = (b < 0) THEN q
        ELSE IF exact THEN -q ELSE -q - 1

\* Python's a % b for b # 0: the remainder with the sign of b.
PyMod(a, b) == a - FloorDiv(a, b) * b

\* len(range(start, stop, step))
range_len(r) ==
    IF r.step > 0
    THEN IF r.start < r.stop THEN FloorDiv(r.stop - r.start - 1, r.step) + 1 ELSE 0
    ELSE IF r.start > r.stop THEN FloorDiv(r.start - r.stop - 1, -r.step) + 1 ELSE 0

\* list(iter(r)) for a range r
range_iter(r) == [i \in 1..range_len(r) |-> r.start + (i - 1) * r.step]

\* r0 == r1 for two ranges: they are compared as sequences.
range_eq(r0, r1) ==
    IF range_len(r0) # range_len(r1) THEN FALSE
    ELSE IF range_len(r0) = 0 THEN TRUE
    ELSE IF r0.start # r1.start THEN FALSE
    ELSE IF range_len(r0) = 1 THEN TRUE
    ELSE r0.step = r1.step

\* hash(r) for a range r: the hash of the tuple (len, start or None, step or None).
\* The tuple stands for its hash.
range_hash(r) ==
    LET n == range_len(r)
    IN  <<n,
          IF n = 0 THEN None ELSE Some(r.start),
          IF n <= 1 THEN None ELSE Some(r.step)>>


\* slice(start, stop, step).indices(length): Return(<<start, stop, step>>) clamped
\* to the length, or ValueError for a step of 0.
slice_indices(s, length) ==
    LET step == IF s.step = None THEN 1 ELSE The(s.step)
        lower == IF step < 0 THEN -1 ELSE 0
        upper == IF step < 0 THEN length - 1 ELSE length
        clamp(o, dflt) ==
            IF o = None THEN dflt
            ELSE LET i == The(o)
                 IN  IF i < 0
                     THEN (IF i + length < lower THEN lower ELSE i + length)
                     ELSE (IF i > upper THEN upper ELSE i)
        start == clamp(s.start, IF step < 0 THEN upper ELSE lower)
        stop == clamp(s.stop, IF step < 0 THEN lower ELSE upper)
    IN  IF step = 0 THEN Raise("ValueError")
        ELSE Return(<<start, stop, step>>)

\* r[s] for a range r and a slice s: another range, or ValueError.
range_getitem_slice(r, s) ==
    LET ind == slice_indices(s, range_len(r))
    IN  IF ~ind.ok THEN ind
        ELSE Return([start |-> r.start + ind.val[1] * r.step,
                     stop |-> r.start + ind.val[2] * r.step,
                     step |-> ind.val[3] * r.step])

\* l[s] for a list l and a slice s: the items at the indices the slice selects.
list_getitem_slice(l, s) ==
    LET ind == slice_indices(s, Len(l))
    IN  IF ~ind.ok THEN ind
        ELSE LET start == ind.val[1]
                 stop == ind.val[2]
                 step == ind.val[3]
                 n == IF step > 0
                      THEN (IF start < stop THEN FloorDiv(stop - start - 1, step) + 1 ELSE 0)
                      ELSE (IF start > stop THEN FloorDiv(start - stop - 1, -step) + 1 ELSE 0)
             IN  Return([k \in 1..n |-> l[start + (k - 1) * step + 1]])

-----------------------------------------------------------------------------
(* lusbir.py *)

Bound(number, inclusive) == [number |-> number, inclusive |-> inclusive]

LusbTuple(lb, ub, st, bs) == [lbound |-> lb, ubound |-> ub, step |-> st, base |-> bs]

\* _ceil_progress rounding the progress down instead of up
Mutant_ceil_progress_floor(x, step, base) ==
    IF step = 0 THEN Raise("ZeroDivisionError")
    ELSE Return(FloorDiv(x - base, step) * step + base)

\* _ceil_progress with a division that rounds toward zero
Mutant_ceil_progress_trunc(x, step, base) ==
    IF step = 0 THEN Raise("ZeroDivisionError")
    ELSE LET a == x - base
             q == Abs(a) \div Abs(step)
             trunc == IF (a < 0) = (-step < 0) THEN q ELSE -q
         IN  Return(-trunc * step + base)

\* Expressing x as (r * step + base) for some real number r, (ceil(r) * step + base);
\* the floor division raises ZeroDivisionError for a step of 0.
_ceil_progress(x, step, base) ==
    IF step = 0 THEN Raise("ZeroDivisionError")
    ELSE Return(-(FloorDiv(x - base, -step)) * step + base)

\* _lusb_tuple_to_range with the exclusive stop bound itself as the stop value
Mutant_lusb_tuple_to_range_raw_stop(lusb_tuple) ==
    LET step == lusb_tuple.step
        inclusive_start_bound ==
            IF step > 0
            THEN (IF lusb_tuple.lbound.inclusive THEN lusb_tuple.lbound.number
                  ELSE lusb_tuple.lbound.number + 1)
            ELSE (IF lusb_tuple.ubound.inclusive THEN lusb_tuple.ubound.number
                  ELSE lusb_tuple.ubound.number - 1)
        exclusive_stop_bound ==
            IF step > 0
            THEN (IF lusb_tuple.ubound.inclusive THEN lusb_tuple.ubound.number + 1
                  ELSE lusb_tuple.ubound.number)
            ELSE (IF lusb_tuple.lbound.inclusive THEN lusb_tuple.lbound.number - 1
                  ELSE lusb_tuple.lbound.number)
        start == _ceil_progress(inclusive_start_bound, step, lusb_tuple.base)
    IN  IF ~start.ok THEN start
        ELSE Return([start |-> start.val, stop |-> exclusive_stop_bound, step |-> step])

\* _lusb_tuple_to_range taking the start from the lower bound whatever the step's sign
Mutant_lusb_tuple_to_range_unsigned(lusb_tuple) ==
    LET step == lusb_tuple.step
        inclusive_start_bound ==
            IF lusb_tuple.lbound.inclusive THEN lusb_tuple.lbound.number
            ELSE lusb_tuple.lbound.number + 1
        exclusive_stop_bound ==
            IF lusb_tuple.ubound.inclusive THEN lusb_tuple.ubound.number + 1
            ELSE lusb_tuple.ubound.number
        start == _ceil_progress(inclusive_start_bound, step, lusb_tuple.base)
        stop == _ceil_progress(exclusive_stop_bound, step, lusb_tuple.base)
    IN  IF ~start.ok THEN start
        ELSE IF ~stop.ok THEN stop
        ELSE Return([start |-> start.val, stop |-> stop.val, step |-> step])

\* The Python range that represents the same list as a lusbir with the lusb tuple.
_lusb_tuple_to_range(lusb_tuple) ==
    LET lb_num == lusb_tuple.lbound.number
        lb_incl == lusb_tuple.lbound.inclusive
        ub_num == lusb_tuple.ubound.number
        ub_incl == lusb_tuple.ubound.inclusive
        step == lusb_tuple.step
        base == lusb_tuple.base
        inclusive_start_bound ==
            IF step > 0 THEN (IF lb_incl THEN lb_num ELSE lb_num + 1)
            ELSE (IF ub_incl THEN ub_num ELSE ub_num - 1)
        exclusive_stop_bound ==
            IF step > 0 THEN (IF ub_incl THEN ub_num + 1 ELSE ub_num)
            ELSE (IF lb_incl THEN lb_num - 1 ELSE lb_num)
        start == _ceil_progress(inclusive_start_bound, step, base)
        stop == _ceil_progress(exclusive_stop_bound, step, base)
    IN  IF ~start.ok THEN start
        ELSE IF ~stop.ok THEN stop
        ELSE Return([start |-> start.val, stop |-> stop.val, step |-> step])

_bound_type_to_inclusivities ==
    [bt \in {"()", "(]", "[)", "[]"} |->
        CASE bt = "()" -> <<FALSE, FALSE>>
          [] bt = "(]" -> <<FALSE, TRUE>>
          [] bt = "[)" -> <<TRUE, FALSE>>
          [] bt = "[]" -> <<TRUE, TRUE>>]

\* _init_from_lusb_tuple storing the base reduced modulo the step
Mutant_init_normalised_base(lusb_tuple) ==
    IF lusb_tuple.step = 0 THEN Raise("ValueError")
    ELSE LET r == _lusb_tuple_to_range(lusb_tuple)
         IN  IF ~r.ok THEN r
             ELSE Return([_range |-> r.val,
                          _lusb_tuple |-> [lusb_tuple EXCEPT
                              !.base = PyMod(lusb_tuple.base, lusb_tuple.step)]])

\* _init_from_lusb_tuple without the check of the step
Mutant_init_unchecked(lusb_tuple) ==
    LET r == _lusb_tuple_to_range(lusb_tuple)
    IN  IF ~r.ok THEN r
        ELSE Return([_range |-> r.val, _lusb_tuple |-> lusb_tuple])

\* Lusbir._init_from_lusb_tuple: Return(the initialized instance), or the
\* exception raised, which leaves no instance to the caller.
Lusbir_init_from_lusb_tuple(lusb_tuple) ==
    IF lusb_tuple.step = 0 THEN Raise("ValueError")
    ELSE LET r == _lusb_tuple_to_range(lusb_tuple)
         IN  IF ~r.ok THEN r
             ELSE Return([_range |-> r.val, _lusb_tuple |-> lusb_tuple])

\* Lusbir.from_lusb_tuple
Lusbir_from_lusb_tuple(lusb_tuple) == Lusbir_init_from_lusb_tuple(lusb_tuple)

IsInt(a) == "int" \in DOMAIN a

IsStr(a) == "str" \in DOMAIN a

\* Lusbir.__init__(*args): the two match statements on the positional arguments.
Lusbir_init(args) ==
    LET n == Len(args)
        shape ==
            IF n = 1 /\ IsInt(args[1]) THEN "ub"
            ELSE IF n >= 2 /\ IsInt(args[1]) /\ IsInt(args[2]) THEN "lb_ub"
            ELSE IF n >= 3 /\ IsStr(args[1]) /\ IsInt(args[2]) /\ IsInt(args[3]) THEN "bt_lb_ub"
            ELSE "invalid"
        other_args ==
            CASE shape = "ub" -> <<>>
              [] shape = "lb_ub" -> SubSeq(args, 3, n)
              [] shape = "bt_lb_ub" -> SubSeq(args, 4, n)
              [] OTHER -> <<>>
        bound_type == args[1].str
        known == bound_type \in DOMAIN _bound_type_to_inclusivities
        lb_num ==
            CASE shape = "ub" -> 0
              [] shape = "lb_ub" -> args[1].int
              [] OTHER -> args[2].int
        ub_num ==
            CASE shape = "ub" -> args[1].int
              [] shape = "lb_ub" -> args[2].int
              [] OTHER -> args[3].int
        lb_incl == IF shape = "bt_lb_ub" THEN _bound_type_to_inclusivities[bound_type][1] ELSE TRUE
        ub_incl == IF shape = "bt_lb_ub" THEN _bound_type_to_inclusivities[bound_type][2] ELSE FALSE
        m == Len(other_args)
        rest_ok == \/ m = 0
                   \/ m = 1 /\ IsInt(other_args[1])
                   \/ m = 2 /\ IsInt(other_args[1]) /\ IsInt(other_args[2])
        step == IF m = 0 THEN 1 ELSE other_args[1].int
        base == IF m = 2 THEN other_args[2].int ELSE 0
    IN  IF shape = "invalid" THEN Raise("TypeError")
        ELSE IF shape = "bt_lb_ub" /\ ~known THEN Raise("ValueError")
        ELSE IF ~rest_ok THEN Raise("TypeError")
        ELSE Lusbir_init_from_lusb_tuple(
                 LusbTuple(Bound(lb_num, lb_incl), Bound(ub_num, ub_incl), step, base))

\* the properties lbound, ubound, step, base and lusb_tuple
Lusbir_lbound(self) == self._lusb_tuple.lbound

Lusbir_ubound(self) == self._lusb_tuple.ubound

Lusbir_step(self) == self._lusb_tuple.step

Lusbir_base(self) == self._lusb_tuple.base

Lusbir_lusb_tuple(self) == self._lusb_tuple

\* __eq__ comparing the start, stop and step of the two ranges
Mutant_eq_fields(self, o) == self._range = o._range

\* __eq__ comparing the lusb tuples
Mutant_eq_lusb_tuples(self, o) == self._lusb_tuple = o._lusb_tuple

\* Lusbir.__eq__ for two lusbirs
Lusbir_eq(self, o) == range_eq(self._range, o._range)

\* __hash__ hashing the lusb tuple
Mutant_hash_lusb_tuple(self) == self._lusb_tuple

\* Lusbir.__hash__
Lusbir_hash(self) == range_hash(self._range)

\* __iter__ yielding the items in ascending order whatever the step
Mutant_iter_ascending(self) ==
    LET l == range_iter(self._range)
    IN  IF self._range.step > 0 THEN l
        ELSE [i \in 1..Len(l) |-> l[Len(l) + 1 - i]]

\* list(iter(self))
Lusbir_iter(self) == range_iter(self._range)

\* Lusbir.to_range
Lusbir_to_range(self) == self._range

\* from_range passing start and stop as lower and upper bound whatever the step
Mutant_from_range_unswapped(r) ==
    Lusbir_init(<<[str |-> "[)"], [int |-> r.start], [int |-> r.stop],
                  [int |-> r.step], [int |-> r.start]>>)

\* Lusbir.from_range
Lusbir_from_range(r) ==
    IF r.step > 0
    THEN Lusbir_init(<<[str |-> "[)"], [int |-> r.start], [int |-> r.stop],
                       [int |-> r.step], [int |-> r.start]>>)
    ELSE Lusbir_init(<<[str |-> "(]"], [int |-> r.stop], [int |-> r.start],
                       [int |-> r.step], [int |-> r.start]>>)

\* __getitem__ building the slice with the standard constructor's default base
Mutant_getitem_default_base(self, subscript) ==
    LET r == range_getitem_slice(self._range, subscript)
    IN  IF ~r.ok THEN r
        ELSE IF r.val.step > 0
        THEN Lusbir_init(<<[str |-> "[)"], [int |-> r.val.start], [int |-> r.val.stop],
                           [int |-> r.val.step]>>)
        ELSE Lusbir_init(<<[str |-> "(]"], [int |-> r.val.stop], [int |-> r.val.start],
                           [int |-> r.val.step]>>)

\* Lusbir.__getitem__ for a slice subscript
Lusbir_getitem(self, subscript) ==
    LET r == range_getitem_slice(self._range, subscript)
    IN  IF ~r.ok THEN r ELSE Lusbir_from_range(r.val)

DigitChars == <<"0", "1", "2", "3", "4", "5", "6", "7", "8", "9">>

RECURSIVE digits_str(_)
\* the decimal digits of n >= 0, most significant first
digits_str(n) ==
    IF n < 10 THEN <<DigitChars[n + 1]>>
    ELSE digits_str(n \div 10) \o <<DigitChars[(n % 10) + 1]>>

\* f'{n}' for an int n: the text of n, a sequence of characters
int_str(n) == IF n < 0 THEN <<"-">> \o digits_str(-n) ELSE digits_str(n)

\* repr(s) for a str s without quotes or escapes: s between single quotes
str_repr(s) == <<"'", s, "'">>

_inclusivities_to_bound_type ==
    [incl \in BOOLEAN \X BOOLEAN |->
        CHOOSE bt \in DOMAIN _bound_type_to_inclusivities :
            _bound_type_to_inclusivities[bt] = incl]

\* __repr__ leaving the base out whenever the step is not 1
Mutant_repr_step_first(self) ==
    LET lt == self._lusb_tuple
        bound_type == _inclusivities_to_bound_type[<<lt.lbound.inclusive, lt.ubound.inclusive>>]
        head == <<"Lusbir(">> \o str_repr(bound_type) \o <<", ">> \o int_str(lt.lbound.number)
                    \o <<", ">> \o int_str(lt.ubound.number)
    IN  IF lt.step # 1
        THEN head \o <<", ">> \o int_str(lt.step) \o <<")">>
        ELSE IF lt.base # 0
        THEN head \o <<", ">> \o int_str(lt.step) \o <<", ">> \o int_str(lt.base) \o <<")">>
        ELSE head \o <<")">>

\* Lusbir.__repr__: the text Lusbir(bound_type, lb_num, ub_num[, step[, base]])
Lusbir_repr(self) ==
    LET lt == self._lusb_tuple
        bound_type == _inclusivities_to_bound_type[<<lt.lbound.inclusive, lt.ubound.inclusive>>]
        head == <<"Lusbir(">> \o str_repr(bound_type) \o <<", ">> \o int_str(lt.lbound.number)
                    \o <<", ">> \o int_str(lt.ubound.number)
    IN  IF lt.base # 0
        THEN head \o <<", ">> \o int_str(lt.step) \o <<", ">> \o int_str(lt.base) \o <<")">>
        ELSE IF lt.step # 1
        THEN head \o <<", ">> \o int_str(lt.step) \o <<")">>
        ELSE head \o <<")">>

RECURSIVE split_args(_, _, _)
\* the texts of the arguments of a call: text cut at each ", "
split_args(text, current, done) ==
    IF text = <<>> THEN (IF current = <<>> /\ done = <<>> THEN <<>> ELSE Append(done, current))
    ELSE IF Head(text) = ", " THEN split_args(Tail(text), <<>>, Append(done, current))
    ELSE split_args(Tail(text), Append(current, Head(text)), done)

IsDigits(text) ==
    /\ text # <<>>
    /\ \A i \in DOMAIN text : \E d \in DOMAIN DigitChars : DigitChars[d] = text[i]

RECURSIVE digits_val(_)
\* the number a sequence of decimal digits denotes
digits_val(text) ==
    IF text = <<>> THEN 0
    ELSE digits_val(SubSeq(text, 1, Len(text) - 1)) * 10
             + (CHOOSE d \in 0..9 : DigitChars[d + 1] = text[Len(text)])

\* the value of a literal: a quoted str, or an int with an optional minus sign
literal_eval(text) ==
    IF Len(text) = 3 /\ text[1] = "'" /\ text[3] = "'" THEN Return([str |-> text[2]])
    ELSE IF IsDigits(text) THEN Return([int |-> digits_val(text)])
    ELSE IF text # <<>> /\ Head(text) = "-" /\ IsDigits(Tail(text))
    THEN Return([int |-> -digits_val(Tail(text))])
    ELSE Raise("SyntaxError")

\* eval(text) for the text of a call of Lusbir with literal arguments
py_eval(text) ==
    IF Len(text) < 2 \/ text[1] # "Lusbir(" \/ text[Len(text)] # ")" THEN Raise("SyntaxError")
    ELSE LET texts == split_args(SubSeq(text, 2, Len(text) - 1), <<>>, <<>>)
             values == [i \in DOMAIN texts |-> literal_eval(texts[i])]
         IN  IF \E i \in DOMAIN values : ~values[i].ok THEN Raise("SyntaxError")
             ELSE Lusbir_init([i \in DOMAIN values |-> values[i].val])

-----------------------------------------------------------------------------
(* The inputs drawn *)

Bounds(maxNum) == [number : -maxNum..maxNum, inclusive : BOOLEAN]

LusbTuples(maxNum, maxStep, maxBase) ==
    [lbound : Bounds(maxNum), ubound : Bounds(maxNum),
     step : -maxStep..maxStep, base : -maxBase..maxBase]

\* Python ranges: their step is never 0
Ranges(maxNum, maxStep) ==
    [start : -maxNum..maxNum, stop : -maxNum..maxNum,
     step : (-maxStep..maxStep) \ {0}]

Optionals(S) == {None} \cup {Some(n) : n \in S}

Slices ==
    [start : Optionals(-MaxSliceIdx..MaxSliceIdx),
     stop : Optionals(-MaxSliceIdx..MaxSliceIdx),
     step : Optionals(-MaxSliceStep..MaxSliceStep)]

BoundTypes == {"()", "(]", "[)", "[]"}

\* The call shapes of the standard constructor, by the number and types of the
\* arguments: the seven valid ones, an unknown bound type, and arguments that
\* match no shape.
InitArgs(shape, bt, lb, ub, st, bs) ==
    CASE shape = 1 -> <<[int |-> ub]>>
      [] shape = 2 -> <<[int |-> lb], [int |-> ub]>>
      [] shape = 3 -> <<[int |-> lb], [int |-> ub], [int |-> st]>>
      [] shape = 4 -> <<[int |-> lb], [int |-> ub], [int |-> st], [int |-> bs]>>
      [] shape = 5 -> <<[str |-> bt], [int |-> lb], [int |-> ub]>>
      [] shape = 6 -> <<[str |-> bt], [int |-> lb], [int |-> ub], [int |-> st]>>
      [] shape = 7 -> <<[str |-> bt], [int |-> lb], [int |-> ub], [int |-> st], [int |-> bs]>>
      [] shape = 8 -> <<[str |-> "{}"], [int |-> lb], [int |-> ub], [int |-> st]>>
      [] shape = 9 -> <<[str |-> bt], [int |-> lb]>>
      [] shape = 10 -> <<[int |-> lb], [int |-> ub], [int |-> st], [int |-> bs], [int |-> 0]>>
      [] shape = 11 -> <<>>

-----------------------------------------------------------------------------
(* The state machine.                                                      *)
(* lr and other are two variables of a client, None until a constructor    *)
(* call returns an instance to them; out is the last call made: its name,  *)
(* its arguments and its outcome.  A call that raises binds nothing and    *)
(* ends the behaviour.  Lusbirs are immutable, so a second call on an      *)
(* instance reaches only states that a first call reaches: a behaviour     *)
(* constructs its instances and makes one call on them.                    *)

NoCall == [op |-> "none"]

Init ==
    /\ lr = None
    /\ other = None
    /\ out = NoCall

Constructors == {"from_lusb_tuple", "init", "from_range"}

Bind(var, res) == IF res.ok THEN Some(res.val) ELSE var

\* lr = Lusbir.from_lusb_tuple(lt)
CallFromLusbTuple(maxNum, maxStep, maxBase) ==
    /\ out = NoCall
    /\ \E lt \in LusbTuples(maxNum, maxStep, maxBase) :
          LET res == Lusbir_from_lusb_tuple(lt)
          IN  /\ out' = [op |-> "from_lusb_tuple", arg |-> lt, res |-> res]
              /\ lr' = Bind(lr, res)
    /\ UNCHANGED other

\* lr = Lusbir(*args)
CallInit ==
    /\ out = NoCall
    /\ \E shape \in 1..11, bt \in BoundTypes,
          lb \in -MaxNum..MaxNum, ub \in -MaxNum..MaxNum,
          st \in -MaxStep..MaxStep, bs \in -MaxBase..MaxBase :
          LET args == InitArgs(shape, bt, lb, ub, st, bs)
              res == Lusbir_init(args)
          IN  /\ out' = [op |-> "init", arg |-> args, res |-> res]
              /\ lr' = Bind(lr, res)
    /\ UNCHANGED other

\* lr = Lusbir.from_range(r)
CallFromRange ==
    /\ out = NoCall
    /\ \E r \in Ranges(MaxNum, MaxStep) :
          LET res == Lusbir_from_range(r)
          IN  /\ out' = [op |-> "from_range", arg |-> r, res |-> res]
              /\ lr' = Bind(lr, res)
    /\ UNCHANGED other

\* list(lr)
CallIter ==
    /\ lr # None
    /\ out.op \in Constructors
    /\ out' = [op |-> "iter", res |-> Return(Lusbir_iter(The(lr)))]
    /\ UNCHANGED <<lr, other>>

\* lr[s] for a slice s
CallGetItem ==
    /\ lr # None
    /\ out.op \in Constructors
    /\ \E s \in Slices :
          out' = [op |-> "getitem", arg |-> s, res |-> Lusbir_getitem(The(lr), s)]
    /\ UNCHANGED <<lr, other>>

\* other = Lusbir.from_range(r)
CallFromRangeOther ==
    /\ lr # None
    /\ other = None
    /\ out.op \in Constructors
    /\ \E r \in Ranges(SmallNum, SmallStep) :
          LET res == Lusbir_from_range(r)
          IN  /\ out' = [op |-> "from_range", arg |-> r, res |-> res]
              /\ other' = Bind(other, res)
    /\ UNCHANGED lr

\* lr == other
CallEq ==
    /\ other # None
    /\ out.op \in Constructors
    /\ out' = [op |-> "eq", res |-> Return(Lusbir_eq(The(lr), The(other)))]
    /\ UNCHANGED <<lr, other>>

\* hash(lr), hash(other)
CallHash ==
    /\ other # None
    /\ out.op \in Constructors
    /\ out' = [op |-> "hash",
               res |-> Return(<<Lusbir_hash(The(lr)), Lusbir_hash(The(other))>>)]
    /\ UNCHANGED <<lr, other>>

\* other = eval(repr(lr))
CallEvalRepr ==
    /\ lr # None
    /\ other = None
    /\ out.op \in Constructors
    /\ LET text == Lusbir_repr(The(lr))
           res == py_eval(text)
       IN  /\ out' = [op |-> "eval_repr", arg |-> text, res |-> res]
           /\ other' = Bind(other, res)
    /\ UNCHANGED lr

\* other = Lusbir.from_lusb_tuple(lr.lusb_tuple._replace(base=lr.base + k * lr.step))
CallShiftBase ==
    /\ lr # None
    /\ other = None
    /\ out.op \in Constructors
    /\ \E k \in -MaxShift..MaxShift :
          LET lt == Lusbir_lusb_tuple(The(lr))
              res == Lusbir_from_lusb_tuple([lt EXCEPT !.base = lt.base + k * lt.step])
          IN  /\ out' = [op |-> "shift_base", arg |-> k, res |-> res]
              /\ other' = Bind(other, res)
    /\ UNCHANGED lr

\* other = Lusbir.from_lusb_tuple(lr.lusb_tuple._replace(step=-lr.step))
CallNegateStep ==
    /\ lr # None
    /\ other = None
    /\ out.op \in Constructors
    /\ LET lt == Lusbir_lusb_tuple(The(lr))
           res == Lusbir_from_lusb_tuple([lt EXCEPT !.step = -lt.step])
       IN  /\ out' = [op |-> "negate_step", res |-> res]
           /\ other' = Bind(other, res)
    /\ UNCHANGED lr

\* One instance: the constructors and the list the instance represents.
Next ==
    \/ CallFromLusbTuple(MaxNum, MaxStep, MaxBase)
    \/ CallInit
    \/ CallFromRange
    \/ CallIter
    \/ CallEvalRepr

Spec == Init /\ [][Next]_vars

\* One instance and its slices.
NextSlice ==
    \/ CallFromLusbTuple(SmallNum, SmallStep, SmallBase)
    \/ CallGetItem

SpecSlice == Init /\ [][NextSlice]_vars

\* Two instances, compared and hashed.
NextPair ==
    \/ CallFromLusbTuple(SmallNum, SmallStep, SmallBase)
    \/ CallFromRangeOther
    \/ CallEq
    \/ CallHash

SpecPair == Init /\ [][NextPair]_vars

\* An instance and a second one built from its lusb tuple with the base shifted
\* or the step negated.
NextVariant ==
    \/ CallFromLusbTuple(MaxNum, MaxStep, MaxBase)
    \/ CallShiftBase
    \/ CallNegateStep

SpecVariant == Init /\ [][NextVariant]_vars

-----------------------------------------------------------------------------
(* Properties of one instance (Spec) *)

\* tests.py, contains: x is within both bounds and congruent to the base modulo the step
contains(lusb_tuple, x) ==
    LET within_lower_bound ==
            IF lusb_tuple.lbound.inclusive THEN lusb_tuple.lbound.number <= x
            ELSE lusb_tuple.lbound.number < x
        within_upper_bound ==
            IF lusb_tuple.ubound.inclusive THEN x <= lusb_tuple.ubound.number
            ELSE x < lusb_tuple.ubound.number
        congruent_to_base_modulo_step == PyMod(x - lusb_tuple.base, lusb_tuple.step) = 0
    IN  within_lower_bound /\ within_upper_bound /\ congruent_to_base_modulo_step

Items(l) == {l[i] : i \in DOMAIN l}

\* the integers tried for membership: past both numeric bounds by more than a step
Window == -(MaxNum + MaxStep + 2)..(MaxNum + MaxStep + 2)

Iterated == out.op = "iter"

\* C1 (inclusion correctness): an integer x appears in the list iterated from an
\* instance if and only if x satisfies the lower bound and the upper bound of the
\* instance's lusb tuple, each per its inclusivity, and (x - base) mod step = 0.
C1_InclusionCorrectness ==
    Iterated =>
        /\ Items(out.res.val) \subseteq Window
        /\ \A x \in Window :
              x \in Items(out.res.val) <=> contains(Lusbir_lusb_tuple(The(lr)), x)

\* a list of several items, descending, between an exclusive lower and an
\* inclusive upper bound, with a base outside [0, |step|)
C1_Witness ==
    /\ Iterated
    /\ Len(out.res.val) >= 2
    /\ Lusbir_step(The(lr)) < -1
    /\ Lusbir_base(The(lr)) >= -Lusbir_step(The(lr))
    /\ ~Lusbir_lbound(The(lr)).inclusive
    /\ Lusbir_ubound(The(lr)).inclusive

\* C2 (order and uniqueness): the iterated list is strictly ascending when the
\* step is positive and strictly descending when it is negative, so no value
\* repeats.
C2_OrderAndUniqueness ==
    Iterated =>
        \A i, j \in DOMAIN out.res.val :
            i < j =>
                IF Lusbir_step(The(lr)) > 0 THEN out.res.val[i] < out.res.val[j]
                ELSE out.res.val[i] > out.res.val[j]

C2_Witness ==
    /\ Iterated
    /\ Len(out.res.val) >= 3
    /\ Lusbir_step(The(lr)) < 0

\* C3 (round-trip spec): from_lusb_tuple of a lusb tuple with a nonzero step
\* returns an instance whose lusb_tuple is the tuple given, field for field, and
\* whose lbound, ubound, step and base are the tuple's.
C3_RoundTripSpec ==
    (out.op = "from_lusb_tuple" /\ out.arg.step # 0) =>
        /\ out.res.ok
        /\ Lusbir_lusb_tuple(out.res.val) = out.arg
        /\ Lusbir_lbound(out.res.val) = out.arg.lbound
        /\ Lusbir_ubound(out.res.val) = out.arg.ubound
        /\ Lusbir_step(out.res.val) = out.arg.step
        /\ Lusbir_base(out.res.val) = out.arg.base
        /\ lr = Some(out.res.val)

\* a tuple that a normalisation would change: bounds out of order, the base
\* outside [0, |step|), a negative step
C3_Witness ==
    /\ out.op = "from_lusb_tuple"
    /\ out.res.ok
    /\ out.arg.step < -1
    /\ out.arg.base < 0
    /\ out.arg.lbound.number > out.arg.ubound.number

\* The step argument of a call of the standard constructor in one of the call
\* shapes that supply a step: Lusbir(lb_num, ub_num, step[, base]) and
\* Lusbir(bound_type, lb_num, ub_num, step[, base]) with a bound type of BoundTypes.
SuppliedStep(args) ==
    IF Len(args) \in {3, 4} /\ \A i \in DOMAIN args : IsInt(args[i])
    THEN Some(args[3].int)
    ELSE IF /\ Len(args) \in {4, 5}
            /\ IsStr(args[1])
            /\ \A i \in 2..Len(args) : IsInt(args[i])
    THEN (IF args[1].str \in BoundTypes THEN Some(args[4].int) ELSE None)
    ELSE None

ZeroStepCall ==
    \/ out.op = "from_lusb_tuple" /\ out.arg.step = 0
    \/ out.op = "init" /\ SuppliedStep(out.arg) = Some(0)

\* C4 (zero-step rejection): a call of from_lusb_tuple or of the standard
\* constructor whose step is 0 raises ValueError (not the ZeroDivisionError that
\* computing the range first would raise) and binds no instance.
C4_ZeroStepRejection ==
    ZeroStepCall =>
        /\ ~out.res.ok
        /\ out.res.exc = "ValueError"
        /\ lr = None

C4_Witness ==
    /\ ZeroStepCall
    /\ out.op = "init"
    /\ Len(out.arg) = 5

FromRange == out.op = "from_range"

\* C8 (from_range preserves the list): the list iterated from from_range(r) is the
\* list of r, and the lusb tuple is ('[)', r.start, r.stop, r.step, base r.start)
\* for a positive step and ('(]', r.stop, r.start, r.step, base r.start) for a
\* negative one.
C8_FromRangePreservesList ==
    FromRange =>
        /\ out.res.ok
        /\ Lusbir_iter(out.res.val) = range_iter(out.arg)
        /\ Lusbir_lusb_tuple(out.res.val) =
              IF out.arg.step > 0
              THEN LusbTuple(Bound(out.arg.start, TRUE), Bound(out.arg.stop, FALSE),
                             out.arg.step, out.arg.start)
              ELSE LusbTuple(Bound(out.arg.stop, FALSE), Bound(out.arg.start, TRUE),
                             out.arg.step, out.arg.start)

\* a descending range of several items whose stop is not aligned to the step
C8_Witness ==
    /\ FromRange
    /\ out.arg.step < -1
    /\ range_len(out.arg) >= 2
    /\ PyMod(out.arg.stop - out.arg.start, out.arg.step) # 0

\* C9 as stated (canonical round-trip): from_range(r).to_range() has the start,
\* the stop and the step of r.
C9_CanonicalRoundTripExact ==
    FromRange => (out.res.ok /\ Lusbir_to_range(out.res.val) = out.arg)

\* C9 as amended: from_range(r).to_range() has the start and the step of r and
\* represents the same list as r; its stop is r.stop moved forward, in the
\* direction of the step and by less than a step, to the next value of the form
\* r.start + n * r.step, so it is r.stop exactly when r.stop - r.start is a
\* multiple of the step.
C9_CanonicalRoundTrip ==
    FromRange =>
        /\ out.res.ok
        /\ LET r == out.arg
               back == Lusbir_to_range(out.res.val)
           IN  /\ back.start = r.start
               /\ back.step = r.step
               /\ range_iter(back) = range_iter(r)
               /\ PyMod(back.stop - r.start, r.step) = 0
               /\ IF r.step > 0
                  THEN r.stop <= back.stop /\ back.stop < r.stop + r.step
                  ELSE r.stop + r.step < back.stop /\ back.stop <= r.stop
               /\ (back.stop = r.stop) <=> (PyMod(r.stop - r.start, r.step) = 0)

\* a range whose stop the round trip moves
C9_Witness ==
    /\ FromRange
    /\ out.res.ok
    /\ Lusbir_to_range(out.res.val).stop # out.arg.stop
    /\ range_len(out.arg) >= 1

-----------------------------------------------------------------------------
(* Properties of two instances (SpecPair) *)

Compared == out.op = "eq"

SameFields(r0, r1) == r0.start = r1.start /\ r0.stop = r1.stop /\ r0.step = r1.step

\* C5 (equality by represented list): lr == other if and only if the list
\* iterated from lr is the list iterated from other.
C5_EqualityByList ==
    Compared => (out.res.val <=> Lusbir_iter(The(lr)) = Lusbir_iter(The(other)))

\* equal instances of several items with different lusb tuples
C5_Witness ==
    /\ Compared
    /\ out.res.val
    /\ Len(Lusbir_iter(The(lr))) >= 2
    /\ Lusbir_lusb_tuple(The(lr)) # Lusbir_lusb_tuple(The(other))

\* C6 as stated (equality by canonical fields): lr == other if and only if the two
\* canonical ranges have the same start, the same stop and the same step.
C6_EqualityByFieldsExact ==
    Compared =>
        (out.res.val <=> SameFields(Lusbir_to_range(The(lr)), Lusbir_to_range(The(other))))

\* C6 as amended: lr == other if and only if the two canonical ranges have the
\* same start, stop and step, or are both empty, or both hold one item and have
\* the same start.
C6_EqualityByFields ==
    Compared =>
        LET r0 == Lusbir_to_range(The(lr))
            r1 == Lusbir_to_range(The(other))
        IN  out.res.val <=>
                \/ SameFields(r0, r1)
                \/ range_len(r0) = 0 /\ range_len(r1) = 0
                \/ range_len(r0) = 1 /\ range_len(r1) = 1 /\ r0.start = r1.start

\* equal instances of one item whose canonical ranges differ in stop and step
C6_Witness ==
    /\ Compared
    /\ out.res.val
    /\ Len(Lusbir_iter(The(lr))) = 1
    /\ Lusbir_to_range(The(lr)).step # Lusbir_to_range(The(other)).step
    /\ Lusbir_to_range(The(lr)).stop # Lusbir_to_range(The(other)).stop

Hashed == out.op = "hash"

\* C7 (equality/hash contract): if lr == other then hash(lr) = hash(other),
\* whatever their lusb tuples.
C7_EqualHash ==
    Hashed => (Lusbir_eq(The(lr), The(other)) => out.res.val[1] = out.res.val[2])

\* equal instances of several items with different lusb tuples, hashed
C7_Witness ==
    /\ Hashed
    /\ Lusbir_eq(The(lr), The(other))
    /\ Len(Lusbir_iter(The(lr))) >= 2
    /\ Lusbir_lusb_tuple(The(lr)) # Lusbir_lusb_tuple(The(other))

-----------------------------------------------------------------------------
(* Properties of slices (SpecSlice) *)

Sliced == out.op = "getitem"

\* C10 (slice consistency): lr[s] is an instance whose iterated list is the slice
\* s of the list iterated from lr, and of lr's canonical range; a slice step of 0
\* raises ValueError for all three.
C10_SliceConsistency ==
    Sliced =>
        LET of_list == list_getitem_slice(Lusbir_iter(The(lr)), out.arg)
            of_range == range_getitem_slice(Lusbir_to_range(The(lr)), out.arg)
        IN  IF of_list.ok
            THEN /\ out.res.ok
                 /\ of_range.ok
                 /\ Lusbir_iter(out.res.val) = of_list.val
                 /\ Lusbir_iter(out.res.val) = range_iter(of_range.val)
                 /\ DOMAIN out.res.val = {"_range", "_lusb_tuple"}
            ELSE /\ ~out.res.ok
                 /\ ~of_range.ok
                 /\ out.res.exc = of_list.exc
                 /\ of_range.exc = of_list.exc

\* a slice with a negative step and a negative start that selects several items
C10_Witness ==
    /\ Sliced
    /\ out.res.ok
    /\ out.arg.step # None
    /\ The(out.arg.step) < -1
    /\ out.arg.start # None
    /\ The(out.arg.start) < 0
    /\ Len(Lusbir_iter(out.res.val)) >= 2

-----------------------------------------------------------------------------
(* Textual reconstruction (Spec) *)

Reconstructed == out.op = "eval_repr"

\* the number of ", " separators of a text
Commas(text) == Cardinality({i \in DOMAIN text : text[i] = ", "})

\* C11 (reconstruction round-trip): eval(repr(lr)) is an instance whose lusb tuple
\* is lr's; the text is a call with the bound type first, then the two numeric
\* bounds, then the step and the base unless the base is 0, in which case the base
\* is left out, and the step too when it is 1.
C11_ReprRoundTrip ==
    Reconstructed =>
        /\ out.res.ok
        /\ Lusbir_lusb_tuple(out.res.val) = Lusbir_lusb_tuple(The(lr))
        /\ other = Some(out.res.val)
        /\ out.arg[1] = "Lusbir("
        /\ out.arg[2] = "'"
        /\ out.arg[3] \in BoundTypes
        /\ Commas(out.arg) =
              IF Lusbir_base(The(lr)) # 0 THEN 4
              ELSE IF Lusbir_step(The(lr)) # 1 THEN 3
              ELSE 2

\* a text with negative numbers, the step 1 and a base that is not 0
C11_Witness ==
    /\ Reconstructed
    /\ out.res.ok
    /\ Lusbir_step(The(lr)) = 1
    /\ Lusbir_base(The(lr)) < 0
    /\ Lusbir_lbound(The(lr)).number < 0
    /\ ~Lusbir_lbound(The(lr)).inclusive
    /\ ~Lusbir_ubound(The(lr)).inclusive

-----------------------------------------------------------------------------
(* Properties of an instance and its variant (SpecVariant) *)

Shifted == out.op = "shift_base"

\* C12 (base-shift invariance): the instance built with base + k * step has the
\* canonical range (start, stop and step) and the iterated list of the instance
\* built with base; only the base of the lusb tuple differs.
C12_BaseShiftInvariance ==
    Shifted =>
        /\ out.res.ok
        /\ other = Some(out.res.val)
        /\ SameFields(Lusbir_to_range(The(other)), Lusbir_to_range(The(lr)))
        /\ Lusbir_iter(The(other)) = Lusbir_iter(The(lr))
        /\ Lusbir_lusb_tuple(The(other)) =
              [Lusbir_lusb_tuple(The(lr)) EXCEPT
                  !.base = Lusbir_base(The(lr)) + out.arg * Lusbir_step(The(lr))]

\* a base moved down by two steps, below the lower bound, of a list of several items
C12_Witness ==
    /\ Shifted
    /\ out.arg = -MaxShift
    /\ Lusbir_step(The(lr)) > 1
    /\ Lusbir_base(The(other)) < Lusbir_lbound(The(lr)).number
    /\ Len(Lusbir_iter(The(lr))) >= 2

Negated == out.op = "negate_step"

Reverse(l) == [i \in 1..Len(l) |-> l[Len(l) + 1 - i]]

\* C13 (negating the step reverses the list): the list iterated from the instance
\* with the same bounds and base and the step -s is the reverse of the list
\* iterated from the instance with the step s.
C13_NegatedStepReverses ==
    Negated =>
        /\ out.res.ok
        /\ Lusbir_step(The(other)) = -Lusbir_step(The(lr))
        /\ Lusbir_iter(The(other)) = Reverse(Lusbir_iter(The(lr)))

\* a list of several items between an exclusive and an inclusive bound, with a
\* step that skips numbers and a base that is not 0
C13_Witness ==
    /\ Negated
    /\ Len(Lusbir_iter(The(lr))) >= 3
    /\ Lusbir_step(The(lr)) > 1
    /\ Lusbir_base(The(lr)) # 0
    /\ ~Lusbir_lbound(The(lr)).inclusive
    /\ Lusbir_ubound(The(lr)).inclusive

-----------------------------------------------------------------------------
(* The canonical range (Spec) *)

Constructed == out.op \in Constructors /\ out.res.ok

\* stop - start is a multiple of the step and has the sign of the step
Aligned(r) ==
    /\ PyMod(r.stop - r.start, r.step) = 0
    /\ (r.stop - r.start) * r.step > 0

\* C14 as stated (canonical range invariant): stop - start is a multiple of the
\* step with the sign of the step, and the count is (stop - start) / step; or
\* else the range is empty and has start = stop.
C14_CanonicalRangeExact ==
    Constructed =>
        LET r == Lusbir_to_range(out.res.val)
        IN  \/ Aligned(r) /\ range_len(r) * r.step = r.stop - r.start
            \/ range_len(r) = 0 /\ r.start = r.stop

\* C14 as amended: stop - start is always a multiple of the step; when it has the
\* sign of the step the count is (stop - start) / step, and otherwise (it is 0 or
\* has the opposite sign, stop coming before start) the range is empty.
C14_CanonicalRange ==
    Constructed =>
        LET r == Lusbir_to_range(out.res.val)
        IN  /\ PyMod(r.stop - r.start, r.step) = 0
            /\ IF Aligned(r) THEN range_len(r) * r.step = r.stop - r.start
               ELSE range_len(r) = 0 /\ Lusbir_iter(out.res.val) = <<>>

\* an empty range whose stop comes before its start
C14_Witness ==
    /\ Constructed
    /\ out.op = "from_lusb_tuple"
    /\ Lusbir_to_range(out.res.val).step > 1
    /\ Lusbir_to_range(out.res.val).stop < Lusbir_to_range(out.res.val).start
    /\ range_len(Lusbir_to_range(out.res.val)) = 0

=============================================================================
